---- MODULE Spec2Model ----
(***************************************************************************)
(* Model of crates/sol-macro/src/expand/contract.rs: the expansion of a    *)
(* Solidity contract into the `Calls`, `Errors` and `Events` enums, and    *)
(* the behaviour of the code that the expansion generates (SolInterface    *)
(* dispatch, per-variant accessors and conversions).                       *)
(*                                                                         *)
(* Two specifications share the variables:                                 *)
(*   Spec          the expansion pass `expand` (item loop, then the three  *)
(*                 enums), one step per loop iteration;                    *)
(*   SpecDispatch  the generated code at run time, started from the        *)
(*                 output of the expansion of a contract.                  *)
(***************************************************************************)
EXTENDS Integers, Sequences, FiniteSets, TLC

VARIABLES
    pc,           \* position in `expand`: "loop", "done", "err", "panic"
    body,         \* the items of contract.body iterated so far
    functions,    \* Vec<&ItemFunction>
    errors,       \* Vec<&ItemError>
    events,       \* Vec<&ItemEvent>
    item_tokens,  \* the types generated by cx.expand_item, in order
    out,          \* the three optional enums of the generated module
    value,        \* run time: the union value the caller holds
    ret           \* run time: the last generated operation called, with its result

vars == <<pc, body, functions, errors, events, item_tokens, out, value, ret>>

(***************************************************************************)
(* Bounds and input pools.                                                 *)
(***************************************************************************)
MaxBody == 4      \* items in a contract body (Spec)
MaxMembers == 3   \* members of the group under test (SpecDispatch)
MaxIndex == 4     \* largest index handed to selector_at

ContractName == "Token"

\* Declared names; the name resolver hands out pairwise distinct identifiers.
Names == <<"transfer", "approve", "mint", "burn", "permit", "sweep">>

\* 4-byte selectors of calls and errors, 32-byte topics of events.
FunctionSelectors == {<<9, 94, 167, 179>>, <<169, 5, 156, 187>>}
ErrorSelectors == {<<8, 195, 121, 160>>, <<8, 195, 121, 78>>}
EventSelectors == {[i \in 1..32 |-> IF i = 32 THEN 1 ELSE 140],
                   [i \in 1..32 |-> IF i = 32 THEN 200 ELSE 140]}

\* Minimum encoded sizes of parameter lists, in bytes (one or two words).
Sizes == {32, 64}

None == [tag |-> "None"]
Some(x) == [tag |-> "Some", val |-> x]
Ok(x) == [tag |-> "Ok", val |-> x]
Err(e) == [tag |-> "Err", err |-> e]
Panic == [tag |-> "Panic"]

SelectorsOf(kind) ==
    CASE kind = "Function" -> FunctionSelectors
      [] kind = "Error" -> ErrorSelectors
      [] kind = "Event" -> EventSelectors
      [] OTHER -> {<<>>}

\* The items a contract body may hold: functions, errors, events, and one
\* item of another kind (a struct, an enum, a variable, ...).
ItemsNamed(name) ==
    {[kind |-> k, name |-> name, selector |-> s, size |-> z] :
        k \in {"Function", "Error", "Event"}, s \in FunctionSelectors \cup ErrorSelectors \cup EventSelectors, z \in Sizes}

Items(name) ==
    {it \in ItemsNamed(name) : it.selector \in SelectorsOf(it.kind)}
        \cup {[kind |-> "Other", name |-> name, selector |-> <<>>, size |-> 0]}

(***************************************************************************)
(* Collaborators of the expansion (ExpCtxt, ty).                           *)
(***************************************************************************)
function_name_ident(f) == f.name
raw_call_name(name) == name \o "Call"
function_selector(f) == f.selector
error_selector(e) == e.selector
event_selector(e) == e.selector
params_base_data_size(item) == item.size

\* The type cx.expand_item generates for an item, with its SELECTOR constant.
expand_item(item) ==
    [ty |-> IF item.kind = "Function"
              THEN raw_call_name(function_name_ident(item))
              ELSE item.name,
     kind |-> item.kind,
     SELECTOR |-> item.selector,
     words |-> item.size \div 32]

(***************************************************************************)
(* Vec / iterator helpers.                                                 *)
(***************************************************************************)
\* Ord of [u8; N]: lexicographic over unsigned bytes. -1, 0 or 1.
RECURSIVE ArrayCmpFrom(_, _, _)
ArrayCmpFrom(a, b, i) ==
    IF i > Len(a) THEN 0
    ELSE IF a[i] < b[i] THEN -1
    ELSE IF a[i] > b[i] THEN 1
    ELSE ArrayCmpFrom(a, b, i + 1)

ArrayCmp(a, b) == ArrayCmpFrom(a, b, 1)

RECURSIVE SortedInsert(_, _)
SortedInsert(s, x) ==
    IF s = <<>> THEN <<x>>
    ELSE IF ArrayCmp(x, Head(s)) <= 0 THEN <<x>> \o s
    ELSE <<Head(s)>> \o SortedInsert(Tail(s), x)

\* selectors.sort_unstable_by_key(|a| a.array)
RECURSIVE sort_unstable_by_key(_)
sort_unstable_by_key(s) ==
    IF s = <<>> THEN <<>>
    ELSE SortedInsert(sort_unstable_by_key(Tail(s)), Head(s))

\* Mutant of iter_min: the first element instead of the least.
iter_first(s) == IF s = <<>> THEN None ELSE Some(Head(s))

\* Iterator::min: None on an empty iterator.
RECURSIVE iter_min(_)
iter_min(s) ==
    IF s = <<>> THEN None
    ELSE LET rest == iter_min(Tail(s))
         IN  IF rest.tag = "None" \/ Head(s) <= rest.val THEN Some(Head(s)) ELSE rest

(***************************************************************************)
(* CallLikeExpander.                                                       *)
(***************************************************************************)
from_functions(fs) ==
    LET variants == [i \in DOMAIN fs |-> function_name_ident(fs[i])]
        types == [i \in DOMAIN variants |-> raw_call_name(variants[i])]
        selectors == sort_unstable_by_key([i \in DOMAIN fs |-> function_selector(fs[i])])
        min == iter_min([i \in DOMAIN fs |-> params_base_data_size(fs[i])])
    IN  IF min.tag = "None" THEN Panic
        ELSE [tag |-> "Expander",
              name |-> ContractName \o "Calls",
              variants |-> variants,
              min_data_len |-> min.val,
              trait_ |-> "SolCall",
              data |-> [kind |-> "Function", selectors |-> selectors, types |-> types]]

from_errors(es) ==
    LET selectors == sort_unstable_by_key([i \in DOMAIN es |-> error_selector(es[i])])
        min == iter_min([i \in DOMAIN es |-> params_base_data_size(es[i])])
    IN  IF min.tag = "None" THEN Panic
        ELSE [tag |-> "Expander",
              name |-> ContractName \o "Errors",
              variants |-> [i \in 1..Len(es) |-> es[i].name],
              min_data_len |-> min.val,
              trait_ |-> "SolError",
              data |-> [kind |-> "Error", selectors |-> selectors]]

\* Mutant of from_events: the last event's size instead of the least.
from_events_last_size(es) ==
    [tag |-> "Expander",
     name |-> ContractName \o "Events",
     variants |-> [i \in 1..Len(es) |-> es[i].name],
     min_data_len |-> params_base_data_size(es[Len(es)]),
     trait_ |-> "SolEvent",
     data |-> [kind |-> "Event",
               selectors |-> sort_unstable_by_key([i \in DOMAIN es |-> event_selector(es[i])])]]

from_events(es) ==
    LET selectors == sort_unstable_by_key([i \in DOMAIN es |-> event_selector(es[i])])
        min == iter_min([i \in DOMAIN es |-> params_base_data_size(es[i])])
    IN  IF min.tag = "None" THEN Panic
        ELSE [tag |-> "Expander",
              name |-> ContractName \o "Events",
              variants |-> [i \in 1..Len(es) |-> es[i].name],
              min_data_len |-> min.val,
              trait_ |-> "SolEvent",
              data |-> [kind |-> "Event", selectors |-> selectors]]

\* Type name overrides: only functions carry them.
types(self) ==
    IF self.data.kind = "Function" THEN self.data.types ELSE self.variants

\* The enum, its SELECTORS constant, and the per-variant conversions and methods.
generate_enum(self) ==
    [name |-> self.name,
     variants |-> [i \in 1..Len(self.variants) |->
                      [variant |-> self.variants[i], ty |-> types(self)[i]]],
     SELECTORS |-> self.data.selectors,
     selector_width |-> IF self.data.kind = "Event" THEN 32 ELSE 4]

\* The enum plus its SolInterface impl.
expand_interface(self) ==
    IF self.tag = "Panic" \/ Len(self.variants) # Len(types(self)) THEN Panic
    ELSE [tag |-> "Tokens",
          def |-> generate_enum(self),
          interface |-> Some([NAME |-> self.name,
                              MIN_DATA_LENGTH |-> self.min_data_len,
                              COUNT |-> Len(self.variants),
                              trait_ |-> self.trait_])]

\* TODO in the source: no SolInterface for events, the enum only.
expand_event(self) ==
    IF self.tag = "Panic" THEN Panic
    ELSE [tag |-> "Tokens", def |-> generate_enum(self), interface |-> None]

functions_enum(fs) ==
    IF Len(fs) > 1 THEN Some(expand_interface(from_functions(fs))) ELSE None

\* Mutant of errors_enum: the enum is built from one error on.
errors_enum_from_one(es) ==
    IF Len(es) >= 1 THEN Some(expand_interface(from_errors(es))) ELSE None

errors_enum(es) ==
    IF Len(es) > 1 THEN Some(expand_interface(from_errors(es))) ELSE None

events_enum(es) ==
    IF Len(es) > 1 THEN Some(expand_event(from_events(es))) ELSE None

Unbuilt == [Function |-> None, Error |-> None, Event |-> None]

Enums(fs, ers, evs) ==
    [Function |-> functions_enum(fs), Error |-> errors_enum(ers), Event |-> events_enum(evs)]

Panicked(o) ==
    \E k \in DOMAIN o : o[k].tag = "Some" /\ o[k].val.tag = "Panic"

(***************************************************************************)
(* expand(cx, contract): the item loop, one step per item.                 *)
(***************************************************************************)
NoCall == [op |-> "none"]

Init ==
    /\ pc = "loop"
    /\ body = <<>>
    /\ functions = <<>>
    /\ errors = <<>>
    /\ events = <<>>
    /\ item_tokens = <<>>
    /\ out = Unbuilt
    /\ value = None
    /\ ret = NoCall

\* One iteration of `for item in body` whose expand_item succeeds.
LoopItem ==
    /\ pc = "loop"
    /\ Len(body) < MaxBody
    /\ \E item \in Items(Names[Len(body) + 1]) :
        /\ body' = Append(body, item)
        /\ functions' = IF item.kind = "Function" THEN Append(functions, item) ELSE functions
        /\ errors' = IF item.kind = "Error" THEN Append(errors, item) ELSE errors
        /\ events' = IF item.kind = "Event" THEN Append(events, item) ELSE events
        /\ item_tokens' = Append(item_tokens, expand_item(item))
    /\ UNCHANGED <<pc, out, value, ret>>

\* One iteration whose expand_item fails: `?` returns the error at once.
LoopItemFails ==
    /\ pc = "loop"
    /\ Len(body) < MaxBody
    /\ \E item \in Items(Names[Len(body) + 1]) :
        /\ body' = Append(body, item)
        /\ functions' = IF item.kind = "Function" THEN Append(functions, item) ELSE functions
        /\ errors' = IF item.kind = "Error" THEN Append(errors, item) ELSE errors
        /\ events' = IF item.kind = "Event" THEN Append(events, item) ELSE events
    /\ pc' = "err"
    /\ UNCHANGED <<item_tokens, out, value, ret>>

\* The loop is over: build the three enums and the module.
BuildEnums ==
    /\ pc = "loop"
    /\ LET o == Enums(functions, errors, events)
       IN  IF Panicked(o)
             THEN pc' = "panic" /\ out' = out
             ELSE pc' = "done" /\ out' = o
    /\ UNCHANGED <<body, functions, errors, events, item_tokens, value, ret>>

Next == LoopItem \/ LoopItemFails \/ BuildEnums

Spec == Init /\ [][Next]_vars

(***************************************************************************)
(* Payload types and their codec (alloy_sol_types::SolCall / SolError).    *)
(* Encoded data is a sequence of 32-byte words, each word held as a small  *)
(* number; Dirty is a word that fails validation.                          *)
(***************************************************************************)
Dirty == 2
CleanWords == {0, 1}

SolType(ty) ==
    CHOOSE t \in {item_tokens[i] : i \in DOMAIN item_tokens} : t.ty = ty

SELECTOR(ty) == SolType(ty).SELECTOR

\* The values of a payload type: one clean word per word of its size.
Payloads(ty) ==
    {[ty |-> ty, words |-> w] : w \in [1..SolType(ty).words -> CleanWords]}

sol_encode_raw(inner, buf) == buf \o inner.words

sol_encoded_size(inner) == 32 * Len(inner.words)

sol_decode_raw(ty, data, validate) ==
    LET n == SolType(ty).words
    IN  IF Len(data) < n THEN Err([kind |-> "Overrun"])
        ELSE IF validate /\ \E i \in 1..n : data[i] = Dirty
               THEN Err([kind |-> "TypeCheckFail"])
        ELSE Ok([ty |-> ty, words |-> [i \in 1..n |-> data[i] % 2]])

unknown_selector(name, selector) ==
    [kind |-> "UnknownSelector", name |-> name, selector |-> selector]

(***************************************************************************)
(* The generated SolInterface impl of a group g (the tokens of one enum).  *)
(***************************************************************************)
\* The arms of a generated match, in variant order.
Arms(g) == g.def.variants

\* `match self`: the arm of the active variant.
ArmOf(g, self) ==
    Arms(g)[CHOOSE i \in DOMAIN Arms(g) : Arms(g)[i].variant = self.variant]

\* Mutant of FirstArm: an arm matches on the first three bytes.
FirstArmByPrefix(g, sel) ==
    LET hits == {i \in DOMAIN Arms(g) :
                    SubSeq(SELECTOR(Arms(g)[i].ty), 1, 3) = SubSeq(sel, 1, 3)}
    IN  IF hits = {} THEN None
        ELSE Some(Arms(g)[CHOOSE i \in hits : \A j \in hits : i <= j])

\* `match selector`: the first arm whose SELECTOR pattern equals the scrutinee.
FirstArm(g, sel) ==
    LET hits == {i \in DOMAIN Arms(g) : SELECTOR(Arms(g)[i].ty) = sel}
    IN  IF hits = {} THEN None
        ELSE Some(Arms(g)[CHOOSE i \in hits : \A j \in hits : i <= j])

selector(g, self) == SELECTOR(ArmOf(g, self).ty)

\* Mutant of selector_at: an index past the end gives the last entry.
selector_at_clamped(g, i) ==
    IF i < Len(g.def.SELECTORS) THEN Some(g.def.SELECTORS[i + 1])
    ELSE Some(g.def.SELECTORS[Len(g.def.SELECTORS)])

selector_at(g, i) ==
    IF i < Len(g.def.SELECTORS) THEN Some(g.def.SELECTORS[i + 1]) ELSE None

type_check(g, sel) ==
    IF FirstArm(g, sel).tag = "Some" THEN Ok("unit")
    ELSE Err(unknown_selector(g.interface.val.NAME, sel))

decode_raw(g, sel, data, validate) ==
    LET arm == FirstArm(g, sel)
    IN  IF arm.tag = "Some"
          THEN LET r == sol_decode_raw(arm.val.ty, data, validate)
               IN  IF r.tag = "Ok"
                     THEN Ok([enum |-> g.def.name, variant |-> arm.val.variant, inner |-> r.val])
                     ELSE r
          ELSE Err(unknown_selector(g.interface.val.NAME, sel))

encoded_size(g, self) == sol_encoded_size(self.inner)

encode_raw(g, self, buf) == sol_encode_raw(self.inner, buf)

(***************************************************************************)
(* The generated conversions and methods of one variant m = (variant, ty). *)
(***************************************************************************)
from(name, m, v) == [enum |-> name, variant |-> m.variant, inner |-> v]

\* Mutant of try_from: the payload is taken from whatever variant is active.
try_from_unchecked(name, m, v) == Ok(v.inner)

try_from(name, m, v) ==
    IF v.variant = m.variant THEN Ok(v.inner) ELSE Err(v)

is_variant(m, self) == self.variant = m.variant

as_variant(m, self) ==
    IF self.variant = m.variant THEN Some(self.inner) ELSE None

\* Mutant of as_variant_mut: the reference is given whatever variant is active.
as_variant_mut_unchecked(m, self) == Some(self.inner)

as_variant_mut(m, self) ==
    IF self.variant = m.variant THEN Some(self.inner) ELSE None

try_into_variant(m, self) ==
    IF self.variant = m.variant THEN Ok(self.inner) ELSE Err(self)

(***************************************************************************)
(* Run time: a caller of the generated code.                               *)
(***************************************************************************)
Kinds == {"Function", "Error", "Event"}

Members(k) ==
    CASE k = "Function" -> functions
      [] k = "Error" -> errors
      [] k = "Event" -> events

Built(k) == pc = "done" /\ out[k].tag = "Some"
Group(k) == out[k].val
HasInterface(k) == Built(k) /\ Group(k).interface.tag = "Some"
Holds(k) == Built(k) /\ value.tag = "Some" /\ value.val.enum = Group(k).def.name

\* Selectors and data a caller may present.
QuerySelectors ==
    FunctionSelectors \cup ErrorSelectors \cup {<<222, 173, 190, 239>>, <<9, 94, 167, 0>>}

RawData == {<<>>, <<1>>, <<Dirty, 1>>, <<1, 0, 1>>}

Idle == ret = NoCall

Call(op, k, a, r) == [op |-> op, kind |-> k, a |-> a, r |-> r]

\* A single-kind contract, expanded.
InitDispatch ==
    \E k \in Kinds, n \in 2..MaxMembers :
        \E sel \in [1..n -> SelectorsOf(k)], size \in [1..n -> Sizes] :
            LET items == [i \in 1..n |->
                            [kind |-> k, name |-> Names[i],
                             selector |-> sel[i], size |-> size[i]]]
                fs == IF k = "Function" THEN items ELSE <<>>
                ers == IF k = "Error" THEN items ELSE <<>>
                evs == IF k = "Event" THEN items ELSE <<>>
            IN  /\ pc = "done"
                /\ body = items
                /\ functions = fs
                /\ errors = ers
                /\ events = evs
                /\ item_tokens = [i \in DOMAIN items |-> expand_item(items[i])]
                /\ out = Enums(fs, ers, evs)
                /\ value = None
                /\ ret = NoCall

static == <<pc, body, functions, errors, events, item_tokens, out>>

\* let value: Enum = payload.into();
From ==
    /\ Idle
    /\ \E k \in Kinds :
        /\ Built(k)
        /\ \E i \in DOMAIN Arms(Group(k)) :
            \E p \in Payloads(Arms(Group(k))[i].ty) :
                LET v == from(Group(k).def.name, Arms(Group(k))[i], p)
                IN  /\ value' = Some(v)
                    /\ ret' = Call("from", k, [variant |-> i, inner |-> p], v)
    /\ UNCHANGED static

\* Payload::try_from(value)
TryFrom ==
    /\ Idle
    /\ \E k \in Kinds :
        /\ Holds(k)
        /\ \E i \in DOMAIN Arms(Group(k)) :
            ret' = Call("try_from", k, [variant |-> i, self |-> value.val],
                        try_from(Group(k).def.name, Arms(Group(k))[i], value.val))
        /\ value' = None
    /\ UNCHANGED static

\* value.try_into_<variant>()
TryIntoVariant ==
    /\ Idle
    /\ \E k \in Kinds :
        /\ Holds(k)
        /\ \E i \in DOMAIN Arms(Group(k)) :
            ret' = Call("try_into", k, [variant |-> i, self |-> value.val],
                        try_into_variant(Arms(Group(k))[i], value.val))
        /\ value' = None
    /\ UNCHANGED static

\* let value = match attempt { Err(value) => value, .. }: the caller takes the
\* union back out of a failed consuming attempt.
Retake ==
    /\ ret.op \in {"try_from", "try_into"}
    /\ ret.r.tag = "Err"
    /\ value' = Some(ret.r.err)
    /\ ret' = NoCall
    /\ UNCHANGED static

\* The caller is done with the result of the last call.
Return ==
    /\ ret # NoCall
    /\ ret' = NoCall
    /\ UNCHANGED <<static, value>>

\* value.is_<variant>()
IsVariant ==
    /\ Idle
    /\ \E k \in Kinds :
        /\ Holds(k)
        /\ \E i \in DOMAIN Arms(Group(k)) :
            ret' = Call("is", k, [variant |-> i, self |-> value.val],
                        is_variant(Arms(Group(k))[i], value.val))
    /\ UNCHANGED <<static, value>>

\* value.as_<variant>()
AsVariant ==
    /\ Idle
    /\ \E k \in Kinds :
        /\ Holds(k)
        /\ \E i \in DOMAIN Arms(Group(k)) :
            ret' = Call("as", k, [variant |-> i, self |-> value.val],
                        as_variant(Arms(Group(k))[i], value.val))
    /\ UNCHANGED <<static, value>>

\* value.as_<variant>_mut()
AsVariantMut ==
    /\ Idle
    /\ \E k \in Kinds :
        /\ Holds(k)
        /\ \E i \in DOMAIN Arms(Group(k)) :
            ret' = Call("as_mut", k, [variant |-> i, self |-> value.val],
                        as_variant_mut(Arms(Group(k))[i], value.val))
    /\ UNCHANGED <<static, value>>

\* *r = payload, through the reference a successful as_<variant>_mut gave.
WriteInner ==
    /\ ret.op = "as_mut"
    /\ ret.r.tag = "Some"
    /\ \E p \in Payloads(ret.r.val.ty) :
        value' = Some([value.val EXCEPT !.inner = p])
    /\ ret' = NoCall
    /\ UNCHANGED static

\* value.selector()
Selector ==
    /\ Idle
    /\ \E k \in Kinds :
        /\ HasInterface(k) /\ Holds(k)
        /\ ret' = Call("selector", k, [self |-> value.val], selector(Group(k), value.val))
    /\ UNCHANGED <<static, value>>

\* Enum::selector_at(i)
SelectorAt ==
    /\ Idle
    /\ \E k \in Kinds :
        /\ HasInterface(k)
        /\ \E i \in 0..MaxIndex :
            ret' = Call("selector_at", k, [i |-> i], selector_at(Group(k), i))
    /\ UNCHANGED <<static, value>>

\* Enum::type_check(selector)
TypeCheck ==
    /\ Idle
    /\ \E k \in Kinds :
        /\ HasInterface(k)
        /\ \E s \in QuerySelectors :
            ret' = Call("type_check", k, [selector |-> s], type_check(Group(k), s))
    /\ UNCHANGED <<static, value>>

\* value.encoded_size()
EncodedSize ==
    /\ Idle
    /\ \E k \in Kinds :
        /\ HasInterface(k) /\ Holds(k)
        /\ ret' = Call("encoded_size", k, [self |-> value.val],
                       encoded_size(Group(k), value.val))
    /\ UNCHANGED <<static, value>>

\* value.encode_raw(&mut out), out empty
EncodeRaw ==
    /\ Idle
    /\ \E k \in Kinds :
        /\ HasInterface(k) /\ Holds(k)
        /\ ret' = Call("encode_raw", k, [self |-> value.val],
                       encode_raw(Group(k), value.val, <<>>))
    /\ UNCHANGED <<static, value>>

\* Enum::decode_raw(selector, data, validate), on caller data or on the
\* encoding of the value held.
DecodeRaw ==
    /\ Idle
    /\ \E k \in Kinds :
        /\ HasInterface(k)
        /\ \E s \in QuerySelectors, validate \in BOOLEAN :
            \E data \in RawData \cup
                    (IF Holds(k) THEN {encode_raw(Group(k), value.val, <<>>)} ELSE {}) :
                ret' = Call("decode_raw", k,
                            [selector |-> s, data |-> data, validate |-> validate],
                            decode_raw(Group(k), s, data, validate))
    /\ UNCHANGED <<static, value>>

NextDispatch ==
    \/ From
    \/ TryFrom
    \/ TryIntoVariant
    \/ Retake
    \/ Return
    \/ IsVariant
    \/ AsVariant
    \/ AsVariantMut
    \/ WriteInner
    \/ Selector
    \/ SelectorAt
    \/ TypeCheck
    \/ EncodedSize
    \/ EncodeRaw
    \/ DecodeRaw

SpecDispatch == InitDispatch /\ [][NextDispatch]_vars

(***************************************************************************)
(* Properties.  The definitions below state what is expected, from the     *)
(* declared members alone, without the operators that model the code.      *)
(***************************************************************************)
Range(s) == {s[i] : i \in DOMAIN s}

Count(s, x) == Cardinality({i \in DOMAIN s : s[i] = x})

\* Unsigned byte-wise lexicographic order on equal-width byte sequences.
ByteLess(a, b) ==
    \E p \in 1..Len(a) : a[p] < b[p] /\ \A q \in 1..(p - 1) : a[q] = b[q]

StrictlyAscending(t) == \A i \in 1..(Len(t) - 1) : ByteLess(t[i], t[i + 1])

IsPermutation(s, t) ==
    /\ Len(s) = Len(t)
    /\ \A x \in Range(s) \cup Range(t) : Count(s, x) = Count(t, x)

Declared(k) == {i \in DOMAIN body : body[i].kind = k}

MemberSelectors(k) == [i \in DOMAIN Members(k) |-> Members(k)[i].selector]

MemberSizes(k) == {Members(k)[i].size : i \in DOMAIN Members(k)}

Least(S) == CHOOSE m \in S : \A x \in S : m <= x

GroupName(k) ==
    CASE k = "Function" -> "TokenCalls"
      [] k = "Error" -> "TokenErrors"
      [] k = "Event" -> "TokenEvents"

IsMember(k, i, v) == i \in DOMAIN Members(k) /\ Members(k)[i].name = v.variant

\* C1: the SELECTORS table of every built group is strictly ascending under
\* unsigned byte-wise comparison and is a permutation of the members' selectors.
C1_SelectorsStrictlySorted ==
    \A k \in Kinds :
        Built(k) =>
            /\ StrictlyAscending(Group(k).def.SELECTORS)
            /\ IsPermutation(Group(k).def.SELECTORS, MemberSelectors(k))

\* C5: a member list with two equal selectors builds no group, so the member
\* selectors of every built group are pairwise distinct.
C5_DuplicateSelectorsRejected ==
    \A k \in Kinds :
        Built(k) =>
            \A i, j \in DOMAIN Members(k) :
                i # j => Members(k)[i].selector # Members(k)[j].selector

\* C6: once the contract is expanded, the enum of a kind exists exactly when
\* the body declares two or more definitions of that kind, each kind on its
\* own; before that no enum exists, and the minimum over an empty list (a
\* panic) is never taken.
C6_GroupIffTwoOrMore ==
    /\ pc # "panic"
    /\ pc # "done" => out = Unbuilt
    /\ pc = "done" =>
        \A k \in Kinds : (out[k].tag = "Some") <=> (Cardinality(Declared(k)) >= 2)

C6_Witness ==
    /\ pc = "done"
    /\ out["Function"].tag = "Some"
    /\ Cardinality(Declared("Error")) = 1
    /\ out["Error"].tag = "None"
    /\ Cardinality(Declared("Event")) = 0
    /\ out["Event"].tag = "None"

ExpanderOf(k, ms) ==
    CASE k = "Function" -> from_functions(ms)
      [] k = "Error" -> from_errors(ms)
      [] k = "Event" -> from_events(ms)

\* C7: the minimum data length of every built group is the least of its
\* members' minimum sizes, hence at most each member's size, and the count is
\* the number of members; calls and errors expose both as MIN_DATA_LENGTH and
\* COUNT.
C7_MinDataLengthIsLeast ==
    \A k \in Kinds :
        Built(k) =>
            /\ ExpanderOf(k, Members(k)).min_data_len = Least(MemberSizes(k))
            /\ \A i \in DOMAIN Members(k) :
                ExpanderOf(k, Members(k)).min_data_len <= Members(k)[i].size
            /\ Len(Group(k).def.variants) = Cardinality(Declared(k))
            /\ k # "Event" =>
                /\ Group(k).interface.val.MIN_DATA_LENGTH = Least(MemberSizes(k))
                /\ Group(k).interface.val.COUNT = Cardinality(Declared(k))

C7_Witness ==
    /\ Built("Function")
    /\ Len(functions) = 3
    /\ functions[1].size = 64
    /\ functions[2].size = 32
    /\ Group("Function").interface.val.MIN_DATA_LENGTH = 32
    /\ Group("Function").interface.val.COUNT = 3

\* Sizes a member's parameter list may be changed to.
NewSizes == {0, 32, 64, 96}

Largest(ms) == {i \in DOMAIN ms : \A j \in DOMAIN ms : ms[j].size <= ms[i].size}

WithSize(ms, i, z) == [ms EXCEPT ![i].size = z]

\* C8 as stated: changing only the size of a member that has the largest size
\* leaves the group's minimum data length as it was.
C8_LargestChangeKeepsMin ==
    \A k \in Kinds :
        Built(k) =>
            \A i \in Largest(Members(k)), z \in NewSizes :
                ExpanderOf(k, WithSize(Members(k), i, z)).min_data_len
                    = ExpanderOf(k, Members(k)).min_data_len

\* C8 amended: changing only the size of a member that has the largest size,
\* to a value not below the group's minimum data length, leaves the minimum
\* data length as it was.
C8_LargestChangeNotBelowMinKeepsMin ==
    \A k \in Kinds :
        Built(k) =>
            \A i \in Largest(Members(k)), z \in NewSizes :
                z >= Least(MemberSizes(k)) =>
                    ExpanderOf(k, WithSize(Members(k), i, z)).min_data_len
                        = Least(MemberSizes(k))

C8_Witness ==
    /\ Built("Error")
    /\ Len(errors) = 2
    /\ errors[1].size = 32
    /\ errors[2].size = 64
    /\ Largest(errors) = {2}
    /\ from_errors(WithSize(errors, 2, 96)).min_data_len = 32

UnknownSelector(k, s) ==
    Err([kind |-> "UnknownSelector", name |-> GroupName(k), selector |-> s])

\* C2: type_check succeeds exactly on the members' selectors; on any other
\* selector type_check and decode_raw fail with the unknown-selector error
\* that carries the group's name and the selector, whatever the data and the
\* validate flag.
C2_UnknownSelectorRejected ==
    /\ ret.op = "type_check" =>
        /\ (ret.r.tag = "Ok") <=> (ret.a.selector \in Range(MemberSelectors(ret.kind)))
        /\ ret.r.tag # "Ok" => ret.r = UnknownSelector(ret.kind, ret.a.selector)
    /\ ret.op = "decode_raw" /\ ret.a.selector \notin Range(MemberSelectors(ret.kind)) =>
        ret.r = UnknownSelector(ret.kind, ret.a.selector)

C2_Witness ==
    /\ ret.op = "decode_raw"
    /\ ret.kind = "Function"
    /\ ret.a.selector = <<9, 94, 167, 0>>
    /\ <<9, 94, 167, 179>> \in Range(MemberSelectors("Function"))
    /\ ret.a.data = <<1, 0, 1>>
    /\ ret.r = UnknownSelector("Function", <<9, 94, 167, 0>>)

\* C3: decoding, under a member's selector and with validation, the encoding
\* of a payload of that member gives the union value of that member's
\* variant, with that selector and that payload.
C3_SelectorRoundTrip ==
    ret.op = "decode_raw" /\ Holds(ret.kind) =>
        \A i \in DOMAIN Members(ret.kind) :
            ( /\ IsMember(ret.kind, i, value.val)
              /\ ret.a.selector = Members(ret.kind)[i].selector
              /\ ret.a.data = value.val.inner.words
              /\ ret.a.validate )
            => /\ ret.r.tag = "Ok"
               /\ ret.r.val.variant = Members(ret.kind)[i].name
               /\ ret.r.val.inner = value.val.inner
               /\ selector(Group(ret.kind), ret.r.val) = Members(ret.kind)[i].selector

\* C4: selector_at(i) is the entry of rank i of the members' selectors in
\* ascending byte-wise order when i is below the member count, and is empty
\* at the count and beyond.
C4_SelectorAtInRangeOrEmpty ==
    ret.op = "selector_at" =>
        LET sels == MemberSelectors(ret.kind)
            below(x) == Cardinality({j \in DOMAIN sels : ByteLess(sels[j], x)})
            upto(x) == Cardinality({j \in DOMAIN sels : ~ByteLess(x, sels[j])})
        IN  IF ret.a.i < Len(sels)
              THEN /\ ret.r.tag = "Some"
                   /\ ret.r.val \in Range(sels)
                   /\ below(ret.r.val) <= ret.a.i
                   /\ ret.a.i < upto(ret.r.val)
              ELSE ret.r = None

C4_Witness ==
    /\ ret.op = "selector_at"
    /\ ret.a.i = Len(Members(ret.kind))
    /\ Group(ret.kind).interface.val.COUNT = ret.a.i
    /\ ret.r = None

\* C9: of the predicates of a group exactly one holds of a union value, that
\* of the variant it was built from; the immutable and the mutable extractor
\* of that variant give the payload it was built from, and those of every
\* other variant give nothing.
C9_AccessorsExhaustive ==
    /\ \A k \in Kinds :
        Holds(k) =>
            LET v == value.val
                g == Group(k)
                hold == {i \in DOMAIN Arms(g) : is_variant(Arms(g)[i], v)}
            IN  /\ Cardinality(hold) = 1
                /\ \A i \in DOMAIN Arms(g) :
                    /\ (i \in hold) <=> IsMember(k, i, v)
                    /\ as_variant(Arms(g)[i], v)
                        = IF IsMember(k, i, v) THEN Some(v.inner) ELSE None
                    /\ as_variant_mut(Arms(g)[i], v)
                        = IF IsMember(k, i, v) THEN Some(v.inner) ELSE None
    /\ ret.op = "from" =>
        /\ IsMember(ret.kind, ret.a.variant, ret.r)
        /\ as_variant(Arms(Group(ret.kind))[ret.a.variant], ret.r) = Some(ret.a.inner)
        /\ as_variant_mut(Arms(Group(ret.kind))[ret.a.variant], ret.r) = Some(ret.a.inner)
    /\ ret.op = "is" => (ret.r <=> IsMember(ret.kind, ret.a.variant, ret.a.self))
    /\ ret.op \in {"as", "as_mut"} =>
        ret.r = IF IsMember(ret.kind, ret.a.variant, ret.a.self)
                  THEN Some(ret.a.self.inner) ELSE None

C9_Witness ==
    /\ ret.op = "as_mut"
    /\ ret.kind = "Event"
    /\ Len(events) = 3
    /\ ret.a.variant = 3
    /\ ret.a.self.variant = events[2].name
    /\ ret.r = None

\* C10: a payload converted into the union converts back, by TryFrom and by
\* the consuming extractor of its variant, to the same payload; the consuming
\* extractor and the conversion of any other variant fail and give the union
\* value back as it was, and some variant's attempt succeeds.
C10_MismatchGivesValueBack ==
    /\ ret.op = "from" =>
        LET m == Arms(Group(ret.kind))[ret.a.variant]
        IN  /\ try_from(Group(ret.kind).def.name, m, ret.r) = Ok(ret.a.inner)
            /\ try_into_variant(m, ret.r) = Ok(ret.a.inner)
    /\ ret.op \in {"try_from", "try_into"} =>
        /\ ret.r = IF IsMember(ret.kind, ret.a.variant, ret.a.self)
                     THEN Ok(ret.a.self.inner) ELSE Err(ret.a.self)
        /\ \E i \in DOMAIN Arms(Group(ret.kind)) :
            /\ try_into_variant(Arms(Group(ret.kind))[i], ret.a.self).tag = "Ok"
            /\ try_from(Group(ret.kind).def.name, Arms(Group(ret.kind))[i], ret.a.self).tag = "Ok"

C10_Witness ==
    /\ ret.op = "try_from"
    /\ ret.kind = "Function"
    /\ ret.a.variant = 1
    /\ ret.a.self.variant = functions[2].name
    /\ ret.r = Err(ret.a.self)

====
